---- MODULE Spec2Model ----
(***************************************************************************)
(* netdog: the update responder (cli/update_responder.rs), the DNS         *)
(* settings merger and resolver writer (dns.rs) and the status reader      *)
(* (networkd_status.rs), as state machines.                                *)
(*                                                                         *)
(* Text is a sequence of chunks, one chunk per write!/writeln! call (a     *)
(* writeln! chunk ends with "\n"); the text itself is their concatenation. *)
(* A file is [exists, content]; fs::write is File::create (create or       *)
(* truncate) followed by write_all, which may stop after any prefix.       *)
(***************************************************************************)
EXTENDS Integers, Sequences, FiniteSets, TLC

VARIABLES
    pc,          \* position of the running update-responder invocation
    iface,       \* run: primary_interface
    status,      \* run: primary_link_status
    result,      \* how the last finished invocation ended
    currentIp,   \* file CURRENT_IP
    resolvConf,  \* file RESOLV_CONF
    sysctlConf,  \* file PRIMARY_SYSCTL_CONF
    marker,      \* file SYSCTL_MARKER_FILE exists
    events,      \* history: what this invocation did, in order
    start,       \* history: the four files as the invocation found them
    prev,        \* history: result and events of the invocation before
    runs,        \* history: number of invocations started
    applied,     \* history: the sysctl file the apply tool last ran against, and its stderr
    ever,        \* history: the marker at first, and what the apply tool did so far
    dnsIn,       \* DNS merge: [config file, lease or status argument]
    dnsOut,      \* DNS merge: [result, resolver file written from it]
    rdIn,        \* status reader: how the networkctl child process goes
    rdOut,       \* status reader: what get_link_status and primary_address made of it
    nameIn,      \* InterfaceName: the string handed to try_from
    nameOut,     \* InterfaceName: the result of try_from, and what it derefs to
    bus,         \* live monitor: the system bus and the links networkd manages
    mon          \* live monitor: the task running subscribe_dbus::run

vars == <<pc, iface, status, result, currentIp, resolvConf, sysctlConf, marker,
          events, start, prev, runs, applied, ever, dnsIn, dnsOut, rdIn, rdOut, nameIn,
          nameOut, bus, mon>>

responderVars == <<pc, iface, status, result, currentIp, resolvConf, sysctlConf,
                   marker, events, start, prev, runs, applied, ever>>

dnsVars == <<dnsIn, dnsOut>>

readerVars == <<rdIn, rdOut>>

nameVars == <<nameIn, nameOut>>

monitorVars == <<bus, mon>>

----------------------------------------------------------------------------
(* Bounds of the model *)

\* invocations of the update responder in one behaviour
MaxRuns == 3

\* members of a nameserver set, and DNS records of a status
MaxNameservers == 2

\* entries of a search list
MaxSearch == 1

\* address entries of a status document
MaxAddresses == 3

\* bytes of an address payload handed to ipaddr_from_vec
MaxOctets == 17

\* characters of a string handed to InterfaceName::try_from
MaxNameLen == 16

\* links networkd lists to the live monitor
MaxLinks == 2

\* property-change notifications the bus emits in one behaviour
MaxNotifications == 3

\* times the primary link disappears and reappears in one behaviour
MaxFlaps == 1

----------------------------------------------------------------------------
(* Option<T>, Result<T, E> *)

None == [some |-> FALSE]

Some(x) == [some |-> TRUE, val |-> x]

Ok(x) == [ok |-> TRUE, val |-> x]

Err(kind) == [ok |-> FALSE, kind |-> kind]

ErrWith(kind, text) == [ok |-> FALSE, kind |-> kind, stderr |-> text]

\* an error wrapped by snafu's context(): the kind, and the kind of its source
ErrFrom(kind, source) == [ok |-> FALSE, kind |-> kind, source |-> source]

\* a panic (unwrap of an Err): the process aborts, nothing is returned
Panic(msg) == [ok |-> FALSE, kind |-> "panic", msg |-> msg]

\* the process was killed: nothing is returned
Crashed == Err("crashed")

NoResult == Err("none")

----------------------------------------------------------------------------
(* Sequences *)

RECURSIVE Concat(_)
\* the text of a sequence of chunks
Concat(chunks) ==
    IF chunks = <<>> THEN "" ELSE Head(chunks) \o Concat(Tail(chunks))

RECURSIVE Join(_, _)
\* [String]::join(sep)
Join(strs, sep) ==
    IF strs = <<>> THEN ""
    ELSE IF Len(strs) = 1 THEN strs[1]
    ELSE strs[1] \o sep \o Join(Tail(strs), sep)

Range(s) == {s[i] : i \in 1..Len(s)}

Prefixes(s) == {SubSeq(s, 1, n) : n \in 0..Len(s)}

\* the orders slice::shuffle can leave a Vec in: every permutation
Shuffles(s) ==
    LET n == Len(s)
        bij == {p \in [1..n -> 1..n] : \A i, j \in 1..n : p[i] = p[j] => i = j}
    IN  {[i \in 1..n |-> s[p[i]]] : p \in bij}

----------------------------------------------------------------------------
(* std::net::IpAddr: the family and the octets (4 or 16) *)

V4(a, b, c, d) == [v6 |-> FALSE, octets |-> <<a, b, c, d>>]

V6(octets) == [v6 |-> TRUE, octets |-> octets]

RECURSIVE SeqLess(_, _)
\* lexicographic order of two sequences of numbers of one length
SeqLess(s, t) ==
    IF s = <<>> \/ t = <<>> THEN FALSE
    ELSE IF Head(s) # Head(t) THEN Head(s) < Head(t)
    ELSE SeqLess(Tail(s), Tail(t))

\* Ord for IpAddr: every V4 before every V6, then by octets
IpLess(x, y) ==
    IF x.v6 # y.v6 THEN ~x.v6 ELSE SeqLess(x.octets, y.octets)

RECURSIVE SortedSeq(_)
\* BTreeSet<IpAddr>::into_iter().collect(): the members in ascending order
SortedSeq(S) ==
    IF S = {} THEN <<>>
    ELSE LET m == CHOOSE x \in S : \A y \in S \ {x} : IpLess(x, y)
         IN  <<m>> \o SortedSeq(S \ {m})

HexDigits ==
    <<"0", "1", "2", "3", "4", "5", "6", "7", "8", "9", "a", "b", "c", "d", "e", "f">>

RECURSIVE Hex(_)
\* {:x} of a u16: lower case, no leading zeros
Hex(n) ==
    IF n < 16 THEN HexDigits[n + 1] ELSE Hex(n \div 16) \o HexDigits[(n % 16) + 1]

\* Display for Ipv4Addr: dotted decimal
Ipv4ToString(o) ==
    ToString(o[1]) \o "." \o ToString(o[2]) \o "." \o ToString(o[3]) \o "." \o ToString(o[4])

\* Ipv6Addr::segments
Segments(o) == [i \in 1..8 |-> o[2 * i - 1] * 256 + o[2 * i]]

FmtSubslice(segs) == Join([i \in 1..Len(segs) |-> Hex(segs[i])], ":")

NoSpan == [start |-> 1, len |-> 0]

RECURSIVE ZeroScan(_, _, _, _)
\* the loop of Display for Ipv6Addr over the segments from i on: current is
\* the run of zero segments that ends before i, longest the first longest so far
ZeroScan(segs, i, current, longest) ==
    IF i > Len(segs) THEN longest
    ELSE IF segs[i] = 0
    THEN IF current.len + 1 > longest.len
         THEN ZeroScan(segs, i + 1,
                       [start |-> IF current.len = 0 THEN i ELSE current.start,
                        len |-> current.len + 1],
                       [start |-> IF current.len = 0 THEN i ELSE current.start,
                        len |-> current.len + 1])
         ELSE ZeroScan(segs, i + 1,
                       [start |-> IF current.len = 0 THEN i ELSE current.start,
                        len |-> current.len + 1],
                       longest)
    ELSE ZeroScan(segs, i + 1, NoSpan, longest)

\* the first longest run of zero segments, as [start, len] (len 0: none)
LongestZeroes(segs) == ZeroScan(segs, 1, NoSpan, NoSpan)

\* Display for Ipv6Addr: IPv4-mapped as ::ffff:a.b.c.d, else the longest run
\* of two or more zero segments compressed to ::
Ipv6ToString(o) ==
    LET segs == Segments(o)
        z == LongestZeroes(segs)
    IN  IF SubSeq(segs, 1, 5) = <<0, 0, 0, 0, 0>> /\ segs[6] = 65535
        THEN "::ffff:" \o Ipv4ToString(SubSeq(o, 13, 16))
        ELSE IF z.len > 1
        THEN FmtSubslice(SubSeq(segs, 1, z.start - 1)) \o "::"
                 \o FmtSubslice(SubSeq(segs, z.start + z.len, 8))
        ELSE FmtSubslice(segs)

\* Display for IpAddr
IpToString(a) == IF a.v6 THEN Ipv6ToString(a.octets) ELSE Ipv4ToString(a.octets)

\* the addresses of the model: two of the tests, and one IPv6 address
Addr1 == V4(1, 2, 3, 4)

Addr2 == V4(192, 168, 0, 2)

Addr6 == V6(<<32, 1, 13, 184, 0, 0, 0, 0, 0, 0, 0, 0, 0, 0, 0, 1>>)

Addrs == {Addr1, Addr2, Addr6}

Domains == {"us-west-2.compute.internal", "foo.bar.baz"}

\* the sequences over S of length at most n
SeqsUpTo(S, n) == UNION {[1..k -> S] : k \in 0..n}

\* Option<BTreeSet<IpAddr>>
NameserverOptions ==
    {None} \cup {Some(S) : S \in {T \in SUBSET Addrs : Cardinality(T) <= MaxNameservers}}

\* the search lists of the model: the short ones, and the list of the tests
SearchLists ==
    SeqsUpTo(Domains, MaxSearch) \cup {<<"us-west-2.compute.internal", "foo.bar.baz">>}

\* Option<Vec<String>>
SearchOptions == {None} \cup {Some(l) : l \in SearchLists}

\* the addresses of the DNS records of a status
StatusAddrs == {Addr2, Addr6}

----------------------------------------------------------------------------
(* Files *)

Absent == [exists |-> FALSE, content |-> <<>>]

FileOf(chunks) == [exists |-> TRUE, content |-> chunks]

----------------------------------------------------------------------------
(* dns.rs: DnsSettings *)

DnsSettings == [nameservers : NameserverOptions, search : SearchOptions]

\* DnsSettings::default()
DefaultSettings == [nameservers |-> None, search |-> None]

\* LeaseInfo, as merge_lease reads it
LeaseInfos == [dns_servers : NameserverOptions, dns_search : SearchOptions]

\* NetworkdDnsConfig and SearchDomain records of a status
DnsRecord(a) == [address |-> a, config_source |-> "DHCPv4"]

DomainRecord(d) == [domain |-> d, config_source |-> "DHCPv4"]

\* the static configuration file: its length and what toml::from_str makes
\* of its text
ConfigFiles ==
    {[exists |-> FALSE, len |-> 0, toml |-> Err("toml")],
     [exists |-> TRUE, len |-> 0, toml |-> Ok(DefaultSettings)],
     [exists |-> TRUE, len |-> 7, toml |-> Err("toml")]}
    \cup {[exists |-> TRUE, len |-> 7, toml |-> Ok(st)] : st \in DnsSettings}

\* the outcome of the file system calls of from_config_impl: fs::metadata and
\* fs::read_to_string each succeed or fail
IoOutcomes ==
    {[meta |-> TRUE, read |-> TRUE], [meta |-> FALSE, read |-> TRUE],
     [meta |-> TRUE, read |-> FALSE]}

IoOk == [meta |-> TRUE, read |-> TRUE]

\* from_config_impl with a parse failure falling back to the default settings
from_config_impl_lenient(file, io) ==
    IF file.exists /\ ~io.meta THEN Err("DnsConfMeta")
    ELSE IF file.exists /\ file.len # 0
    THEN IF ~io.read THEN Err("DnsConfReadFailed")
         ELSE IF ~file.toml.ok THEN Ok([nameservers |-> None, search |-> None])
         ELSE Ok(file.toml.val)
    ELSE Ok([nameservers |-> None, search |-> None])

\* DnsSettings::from_config_impl
from_config_impl(file, io) ==
    IF file.exists /\ ~io.meta THEN Err("DnsConfMeta")
    ELSE LET config_exists == IF file.exists THEN file.len # 0 ELSE FALSE
         IN  IF config_exists
             THEN IF ~io.read THEN Err("DnsConfReadFailed")
                  ELSE IF ~file.toml.ok THEN Err("DnsConfParse")
                  ELSE Ok(file.toml.val)
             ELSE Ok(DefaultSettings)

\* merge_lease adding the lease's servers to the configured ones
merge_lease_union(self, lease) ==
    [nameservers |-> IF ~self.nameservers.some THEN lease.dns_servers
                     ELSE IF lease.dns_servers.some
                     THEN Some(self.nameservers.val \cup lease.dns_servers.val)
                     ELSE self.nameservers,
     search |-> IF ~self.search.some THEN lease.dns_search ELSE self.search]

\* DnsSettings::merge_lease
merge_lease(self, lease) ==
    [nameservers |-> IF ~self.nameservers.some THEN lease.dns_servers
                     ELSE self.nameservers,
     search |-> IF ~self.search.some THEN lease.dns_search ELSE self.search]

\* merge_status with the precedence reversed: the status wins where it has a value
merge_status_status_first(self, st) ==
    [nameservers |->
         IF st.dns.some
         THEN Some({st.dns.val[i].address : i \in 1..Len(st.dns.val)})
         ELSE self.nameservers,
     search |->
         IF st.search_domains.some
         THEN Some([i \in 1..Len(st.search_domains.val) |->
                        st.search_domains.val[i].domain])
         ELSE self.search]

\* DnsSettings::merge_status
merge_status(self, st) ==
    [nameservers |->
         IF ~self.nameservers.some /\ st.dns.some
         THEN Some({st.dns.val[i].address : i \in 1..Len(st.dns.val)})
         ELSE self.nameservers,
     search |->
         IF ~self.search.some /\ st.search_domains.some
         THEN Some([i \in 1..Len(st.search_domains.val) |->
                        st.search_domains.val[i].domain])
         ELSE self.search]

\* DnsSettings::from_config_or_lease
from_config_or_lease(file, io, lease) ==
    LET settings == from_config_impl(file, io)
    IN  IF ~settings.ok THEN settings
        ELSE IF lease.some THEN Ok(merge_lease(settings.val, lease.val))
        ELSE settings

\* DnsSettings::from_config_or_status
from_config_or_status(file, io, st) ==
    LET settings == from_config_impl(file, io)
    IN  IF ~settings.ok THEN settings ELSE Ok(merge_status(settings.val, st))

\* the search line with the domains joined by commas
SearchLine_comma(list) == "search " \o Join(list, ",") \o "\n"

\* the search line of write_resolv_conf_impl
SearchLine(list) == "search " \o Join(list, " ") \o "\n"

\* a nameserver line of write_resolv_conf_impl
NameserverLine(a) == "nameserver " \o IpToString(a) \o "\n"

\* write_resolv_conf_impl without the shuffle: the set's own order
NameserverOrders_unshuffled(S) == {SortedSeq(S)}

\* write_resolv_conf_impl over a list that keeps a repeated server: the first
\* server is emitted a second time
NameserverOrders_repeating(S) ==
    {IF o = <<>> THEN o ELSE Append(o, o[1]) : o \in Shuffles(SortedSeq(S))}

\* the orders write_resolv_conf_impl can emit the nameservers in
NameserverOrders(S) == Shuffles(SortedSeq(S))

\* write_resolv_conf_impl writing the search line also when search is unset
ResolvConfOutputs_always_search(self) ==
    LET searchPart == <<SearchLine(IF self.search.some THEN self.search.val ELSE <<>>)>>
        orders == IF self.nameservers.some THEN Shuffles(SortedSeq(self.nameservers.val))
                  ELSE {<<>>}
    IN  {searchPart \o [i \in 1..Len(o) |-> NameserverLine(o[i])] : o \in orders}

\* write_resolv_conf_impl: the buffers it can build from the settings
ResolvConfOutputs(self) ==
    LET searchPart == IF self.search.some THEN <<SearchLine(self.search.val)>> ELSE <<>>
        orders == IF self.nameservers.some THEN NameserverOrders(self.nameservers.val)
                  ELSE {<<>>}
    IN  {searchPart \o [i \in 1..Len(o) |-> NameserverLine(o[i])] : o \in orders}

\* std::fs::write(path, buf): File::create, then write_all.  The ways it can
\* end: done; create failed (the file is as it was); write_all failed after a
\* proper prefix of the buffer (the file was truncated by create)
FsWriteOutcomes(old, buf) ==
    {[ok |-> TRUE, file |-> FileOf(buf)], [ok |-> FALSE, file |-> old]}
    \cup {[ok |-> FALSE, file |-> FileOf(pre)] : pre \in Prefixes(buf) \ {buf}}

----------------------------------------------------------------------------
(* The DNS merger and the resolver writer on their own: the inputs are      *)
(* drawn by InitDns, the actions apply the functions of dns.rs to them.    *)

\* the statuses the merger is given: DNS records may repeat an address
DnsStatuses ==
    [name : {"eno1"},
     dns : {None} \cup {Some([i \in 1..Len(l) |-> DnsRecord(l[i])]) :
                           l \in SeqsUpTo(StatusAddrs, MaxNameservers)},
     search_domains : {None} \cup {Some([i \in 1..Len(l) |-> DomainRecord(l[i])]) :
                                      l \in SearchLists},
     addresses : {<<Addr1>>}]

DnsArguments ==
    {[via |-> "lease", lease |-> l] : l \in {None} \cup {Some(x) : x \in LeaseInfos}}
    \cup {[via |-> "status", status |-> st] : st \in DnsStatuses}

\* a resolver file left by an earlier run
StaleResolvConf == FileOf(<<"nameserver 10.0.0.2\n">>)

\* the status reader and the InterfaceName constructor on their own are not in use
ReaderIdle == rdIn = [phase |-> "none"] /\ rdOut = [phase |-> "none"]

NameIdle == nameIn = <<>> /\ nameOut = [phase |-> "none"]

\* the live monitor is not running
MonitorIdle == bus = [phase |-> "none"] /\ mon = [pc |-> "none"]

ResponderIdle ==
    /\ pc = "idle"
    /\ iface = ""
    /\ status = None
    /\ result = NoResult
    /\ currentIp = Absent
    /\ resolvConf = Absent
    /\ sysctlConf = Absent
    /\ marker = FALSE
    /\ events = <<>>
    /\ start = [marker |-> FALSE, sysctl |-> Absent, currentIp |-> Absent, resolvConf |-> Absent]
    /\ prev = [result |-> NoResult, events |-> <<>>]
    /\ runs = 0
    /\ applied = [input |-> Absent, stderr |-> <<>>]
    /\ ever = [marker |-> FALSE, tool_ok |-> FALSE, inputs |-> {}]

InitDns ==
    /\ ResponderIdle
    /\ ReaderIdle
    /\ NameIdle
    /\ MonitorIdle
    /\ dnsIn \in [config : ConfigFiles, arg : DnsArguments]
    /\ dnsOut = [phase |-> "input", io |-> IoOk, loaded |-> Err("unset"),
                 settings |-> Err("unset"), file |-> StaleResolvConf,
                 written |-> Err("unset")]

\* DnsSettings::from_config_or_lease on the drawn inputs
FromConfigOrLease ==
    /\ dnsOut.phase = "input"
    /\ dnsIn.arg.via = "lease"
    /\ \E io \in IoOutcomes :
           dnsOut' = [dnsOut EXCEPT
                          !.phase = "merged",
                          !.io = io,
                          !.loaded = from_config_impl(dnsIn.config, io),
                          !.settings = from_config_or_lease(dnsIn.config, io, dnsIn.arg.lease)]
    /\ UNCHANGED <<dnsIn, responderVars, readerVars, nameVars, monitorVars>>

\* DnsSettings::from_config_or_status on the drawn inputs
FromConfigOrStatus ==
    /\ dnsOut.phase = "input"
    /\ dnsIn.arg.via = "status"
    /\ \E io \in IoOutcomes :
           dnsOut' = [dnsOut EXCEPT
                          !.phase = "merged",
                          !.io = io,
                          !.loaded = from_config_impl(dnsIn.config, io),
                          !.settings = from_config_or_status(dnsIn.config, io, dnsIn.arg.status)]
    /\ UNCHANGED <<dnsIn, responderVars, readerVars, nameVars, monitorVars>>

\* DnsSettings::write_resolv_conf_impl on the merged settings
WriteResolvConfImpl ==
    /\ dnsOut.phase = "merged"
    /\ dnsOut.settings.ok
    /\ \E buf \in ResolvConfOutputs(dnsOut.settings.val) :
       \E w \in FsWriteOutcomes(dnsOut.file, buf) :
           dnsOut' = [dnsOut EXCEPT
                          !.phase = "written",
                          !.file = w.file,
                          !.written = IF w.ok THEN Ok(buf) ELSE Err("ResolvConfWriteFailed")]
    /\ UNCHANGED <<dnsIn, responderVars, readerVars, nameVars, monitorVars>>

NextDns == FromConfigOrLease \/ FromConfigOrStatus \/ WriteResolvConfImpl

SpecDns == InitDns /\ [][NextDns]_vars

----------------------------------------------------------------------------
(* networkd_status.rs *)

\* ipaddr_from_vec without the arm for 16 octets
ipaddr_from_vec_no_v6(address_vec) ==
    IF Len(address_vec) = 4
    THEN Ok(V4(address_vec[1], address_vec[2], address_vec[3], address_vec[4]))
    ELSE [ok |-> FALSE, kind |-> "BadIpAddress", input |-> address_vec,
          msg |-> "invalid length, must be 4 or 16 octets"]

\* ipaddr_from_vec
ipaddr_from_vec(address_vec) ==
    IF Len(address_vec) = 4
    THEN Ok(V4(address_vec[1], address_vec[2], address_vec[3], address_vec[4]))
    ELSE IF Len(address_vec) = 16
    THEN Ok(V6([i \in 1..16 |-> address_vec[i]]))
    ELSE [ok |-> FALSE, kind |-> "BadIpAddress", input |-> address_vec,
          msg |-> "invalid length, must be 4 or 16 octets"]

\* NetworkctlAddress: an entry of the Addresses array of a status document
NetworkctlAddress(family, address) ==
    [family |-> family, address |-> address, prefix_length |-> 24,
     config_source |-> "DHCPv4"]

RECURSIVE from_networkctl_addresses(_)
\* from_networkctl_addresses: the entries are decoded in order, the first
\* failure is the result (as a custom error of the deserializer)
from_networkctl_addresses(addresses) ==
    IF addresses = <<>> THEN Ok(<<>>)
    ELSE LET addr == ipaddr_from_vec(Head(addresses).address)
         IN  IF ~addr.ok THEN ErrFrom("serde_custom", addr.kind)
             ELSE LET addrs == from_networkctl_addresses(Tail(addresses))
                  IN  IF ~addrs.ok THEN addrs ELSE Ok(<<addr.val>> \o addrs.val)

\* serde_json::from_str::<NetworkdStatus> on a document: valid says whether
\* the text is JSON that matches the schema apart from the address payloads
serde_json_from_str(doc) ==
    IF ~doc.valid THEN Err("serde_json")
    ELSE LET addrs == from_networkctl_addresses(doc.addresses)
         IN  IF ~addrs.ok THEN addrs
             ELSE Ok([name |-> doc.name, dns |-> None, search_domains |-> None,
                      addresses |-> addrs.val])

\* primary_address without the preference for IPv4: the first address
primary_address_first(st) ==
    IF Len(st.addresses) < 1 THEN Err("NoIpAddress") ELSE Ok(st.addresses[1])

\* NetworkdStatus::primary_address
primary_address(st) ==
    LET n == Len(st.addresses)
        v4 == {i \in 1..n : ~st.addresses[i].v6}
    IN  IF n < 1 THEN Err("NoIpAddress")
        ELSE IF n = 1 THEN Ok(st.addresses[1])
        ELSE IF v4 # {} THEN Ok(st.addresses[CHOOSE i \in v4 : \A j \in v4 : i <= j])
        ELSE Err("NoIpAddress")

\* String::from_utf8_lossy on bytes that are ASCII or the invalid byte 0xFF:
\* an invalid byte becomes U+FFFD
from_utf8_lossy(bytes) ==
    LET chr(b) == CASE b = 101 -> "e"
                    [] b = 114 -> "r"
                    [] b >= 128 -> "<U+FFFD>"
                    [] OTHER -> "."
    IN  Concat([i \in 1..Len(bytes) |-> chr(bytes[i])])

\* standard-error outputs of a child process: none, "err", and "e" 0xFF
StderrBytes == {<<>>, <<101, 114, 114>>, <<101, 255>>}

\* get_link_status without the ensure! on the exit status
get_link_status_unchecked(link, proc) ==
    IF ~proc.spawned THEN Err("NetworkctlExecution")
    ELSE IF ~proc.utf8 THEN Panic("from_utf8")
    ELSE IF ~proc.json.ok THEN Panic("serde_json")
    ELSE Ok(proc.json.val)

\* get_link_status: proc is how the networkctl child process went for the
\* link, with json what serde_json::from_str makes of its standard output
get_link_status(link, proc) ==
    IF ~proc.spawned THEN Err("NetworkctlExecution")
    ELSE IF ~proc.success THEN ErrWith("FailedNetworkctl", from_utf8_lossy(proc.stderr))
    ELSE IF ~proc.utf8 THEN Panic("from_utf8")
    ELSE IF ~proc.json.ok THEN Panic("serde_json")
    ELSE Ok(proc.json.val)

----------------------------------------------------------------------------
(* cli/update_responder.rs *)

Ifaces == {"eno1", "eth0"}

\* the statuses networkctl reports for a link
ResponderStatuses(link) ==
    {[name |-> link, dns |-> Some(<<DnsRecord(Addr2)>>),
      search_domains |-> Some(<<DomainRecord("foo.bar.baz")>>), addresses |-> <<Addr1>>],
     [name |-> link, dns |-> None, search_domains |-> None, addresses |-> <<Addr6, Addr2>>],
     [name |-> link, dns |-> None, search_domains |-> None, addresses |-> <<>>]}

\* how the networkctl child process can go when asked for the status of a link
NetworkctlRuns(link) ==
    {[spawned |-> FALSE, success |-> FALSE, stderr |-> <<>>, utf8 |-> TRUE, json |-> Err("json")],
     [spawned |-> TRUE, success |-> FALSE, stderr |-> <<101, 255>>, utf8 |-> TRUE,
      json |-> Err("json")],
     [spawned |-> TRUE, success |-> TRUE, stderr |-> <<>>, utf8 |-> FALSE, json |-> Err("json")],
     [spawned |-> TRUE, success |-> TRUE, stderr |-> <<>>, utf8 |-> TRUE, json |-> Err("json")]}
    \cup {[spawned |-> TRUE, success |-> TRUE, stderr |-> <<>>, utf8 |-> TRUE, json |-> Ok(st)] :
             st \in ResponderStatuses(link)}

\* how the systemd-sysctl child process can go
SysctlRuns ==
    {[spawned |-> FALSE, success |-> FALSE, stderr |-> <<>>]}
    \cup {[spawned |-> TRUE, success |-> FALSE, stderr |-> e] : e \in StderrBytes}
    \cup {[spawned |-> TRUE, success |-> TRUE, stderr |-> <<>>]}

\* the static configuration files the responder finds
ResponderConfigs ==
    {[exists |-> FALSE, len |-> 0, toml |-> Err("toml")],
     [exists |-> TRUE, len |-> 7, toml |-> Err("toml")],
     [exists |-> TRUE, len |-> 7,
      toml |-> Ok([nameservers |-> Some({Addr1, Addr6}), search |-> None])]}

\* the two lines in the other order
sysctl_conf_swapped(interface) ==
    <<"-net.ipv4.conf." \o interface \o ".rp_filter = 2" \o "\n",
      "-net.ipv6.conf." \o interface \o ".accept_ra = 2" \o "\n">>

\* write_interface_sysctl: the buffer it builds
sysctl_conf(interface) ==
    <<"-net.ipv6.conf." \o interface \o ".accept_ra = 2" \o "\n",
      "-net.ipv4.conf." \o interface \o ".rp_filter = 2" \o "\n">>

\* line 37 made false: the sysctl file is never written
sysctl_conf_missing_never(file) == FALSE

\* line 37 made true: the sysctl file is written by every invocation
sysctl_conf_missing_unconditional(file) == TRUE

\* the test of line 37 without its negation
sysctl_conf_missing_inverted(file) == file.exists

\* run, line 37: the sysctl file is written only when it does not exist
sysctl_conf_missing(file) == ~file.exists

\* the test of line 42 dropped: the tool runs on every invocation
marker_missing_always(m) == TRUE

\* run, line 42: the apply tool runs only when the marker does not exist
marker_missing(m) == ~m

\* lines 43-52 without the ensure! on the exit status
sysctl_apply_result_unchecked(tool) ==
    IF ~tool.spawned THEN Err("SystemdSysctlExecution") ELSE Ok("applied")

\* run, lines 43-52: what the outcome of the systemd-sysctl process makes
\* run do: return an error, or go on to the marker
sysctl_apply_result(tool) ==
    IF ~tool.spawned THEN Err("SystemdSysctlExecution")
    ELSE IF ~tool.success
    THEN ErrWith("FailedSystemdSysctl", from_utf8_lossy(tool.stderr))
    ELSE Ok("applied")

\* lines 54-61 with the marker write propagated by ? instead of logged
marker_write_result_fatal(created) ==
    IF created THEN Ok("unit") ELSE Err("MarkerWriteFailed")

\* run, lines 54-61: a failed marker write is logged; run returns Ok either way
marker_write_result(created) == Ok("unit")

Running == Err("running")

\* the files as an invocation finds them
Found(m, sysctl, ip, resolv) ==
    [marker |-> m, sysctl |-> sysctl, currentIp |-> ip, resolvConf |-> resolv]

\* the sysctl file and the marker are files of the host: an invocation can
\* find each of them there or not
Init ==
    /\ pc = "idle"
    /\ iface = ""
    /\ status = None
    /\ result = NoResult
    /\ currentIp = Absent
    /\ resolvConf = Absent
    /\ sysctlConf \in {Absent, FileOf(sysctl_conf("eno1"))}
    /\ marker \in BOOLEAN
    /\ events = <<>>
    /\ start = Found(marker, sysctlConf, currentIp, resolvConf)
    /\ prev = [result |-> NoResult, events |-> <<>>]
    /\ runs = 0
    /\ applied = [input |-> Absent, stderr |-> <<>>]
    /\ ever = [marker |-> marker, tool_ok |-> FALSE, inputs |-> {}]
    /\ dnsIn = [config |-> Absent, arg |-> [via |-> "none"]]
    /\ dnsOut = [phase |-> "none"]
    /\ ReaderIdle
    /\ NameIdle
    /\ MonitorIdle

\* the invocation ends: run returns r, panics or is killed
Finish(r) ==
    /\ pc' = "idle"
    /\ result' = r

Goto(next) ==
    /\ pc' = next
    /\ UNCHANGED result

\* run, line 20: a new invocation reads the primary interface name
Start ==
    /\ pc = "idle"
    /\ runs < MaxRuns
    /\ runs' = runs + 1
    /\ prev' = [result |-> result, events |-> events]
    /\ events' = <<>>
    /\ start' = Found(marker, sysctlConf, currentIp, resolvConf)
    /\ status' = None
    /\ \E r \in {Err("PrimaryInterface")} \cup {Ok(n) : n \in Ifaces} :
           IF r.ok
           THEN iface' = r.val /\ pc' = "get_link_status" /\ result' = Running
           ELSE iface' = "" /\ Finish(r)
    /\ UNCHANGED <<currentIp, resolvConf, sysctlConf, marker, applied, ever, dnsVars, readerVars,
                   nameVars, monitorVars>>

\* run, line 26: get_link_status(..).unwrap()
GetLinkStatus ==
    /\ pc = "get_link_status"
    /\ \E proc \in NetworkctlRuns(iface) :
           LET r == get_link_status(iface, proc)
           IN  IF r.ok
               THEN status' = Some(r.val) /\ Goto("primary_address")
               ELSE /\ status' = status
                    /\ Finish(IF r.kind = "panic" THEN r ELSE Panic(r.kind))
    /\ UNCHANGED <<iface, currentIp, resolvConf, sysctlConf, marker, events, start, prev,
                   runs, applied, ever, dnsVars, readerVars, nameVars, monitorVars>>

\* run, line 29: primary_address().unwrap()
PrimaryAddress ==
    /\ pc = "primary_address"
    /\ LET r == primary_address(status.val)
       IN  IF r.ok THEN Goto("write_current_ip") ELSE Finish(Panic(r.kind))
    /\ UNCHANGED <<iface, status, currentIp, resolvConf, sysctlConf, marker, events, start,
                   prev, runs, applied, ever, dnsVars, readerVars, nameVars, monitorVars>>

\* a failed write ignored: run goes on to the next step
AfterWrite_regardless(old, w, killed, tag, kind, next) ==
    /\ events' = IF w.ok \/ w.file # old THEN Append(events, tag) ELSE events
    /\ Goto(next)

\* an fs::write of buf over old by the running invocation: w is how it goes,
\* killed whether the process is killed during it; tag names the artifact in
\* the history, kind the error returned when the write fails
AfterWrite(old, w, killed, tag, kind, next) ==
    /\ events' = IF w.ok \/ w.file # old THEN Append(events, tag) ELSE events
    /\ IF w.ok /\ ~killed THEN Goto(next)
       ELSE Finish(IF killed THEN Crashed ELSE Err(kind))

\* run, line 30: write_current_ip
WriteCurrentIp ==
    /\ pc = "write_current_ip"
    /\ \E w \in FsWriteOutcomes(currentIp, <<IpToString(primary_address(status.val).val)>>) :
       \E killed \in {FALSE, ~w.ok} :
           /\ currentIp' = w.file
           /\ AfterWrite(currentIp, w, killed, "current_ip", "CurrentIpWriteFailed",
                         "write_resolv_conf")
    /\ UNCHANGED <<iface, status, resolvConf, sysctlConf, marker, start, prev, runs,
                   applied, ever, dnsVars, readerVars, nameVars, monitorVars>>

\* run, line 33: write_resolv_conf
WriteResolvConf ==
    /\ pc = "write_resolv_conf"
    /\ \E config \in ResponderConfigs, io \in IoOutcomes :
           LET dns_settings == from_config_or_status(config, io, status.val)
           IN  IF ~dns_settings.ok
               THEN /\ Finish(ErrFrom("GetDnsSettings", dns_settings.kind))
                    /\ UNCHANGED <<resolvConf, events>>
               ELSE \E buf \in ResolvConfOutputs(dns_settings.val) :
                    \E w \in FsWriteOutcomes(resolvConf, buf) :
                    \E killed \in {FALSE, ~w.ok} :
                        /\ resolvConf' = w.file
                        /\ AfterWrite(resolvConf, w, killed, "resolv_conf",
                                      "ResolvConfWriteFailed", "sysctl_conf")
    /\ UNCHANGED <<iface, status, currentIp, sysctlConf, marker, start, prev, runs,
                   applied, ever, dnsVars, readerVars, nameVars, monitorVars>>

\* run, lines 37-39: write_interface_sysctl unless the file exists
WriteInterfaceSysctl ==
    /\ pc = "sysctl_conf"
    /\ IF sysctl_conf_missing(sysctlConf)
       THEN \E w \in FsWriteOutcomes(sysctlConf, sysctl_conf(iface)) :
            \E killed \in {FALSE, ~w.ok} :
                /\ sysctlConf' = w.file
                /\ AfterWrite(sysctlConf, w, killed, "sysctl_conf", "SysctlConfWrite", "apply")
       ELSE /\ Goto("apply")
            /\ UNCHANGED <<sysctlConf, events>>
    /\ UNCHANGED <<iface, status, currentIp, resolvConf, marker, start, prev, runs,
                   applied, ever, dnsVars, readerVars, nameVars, monitorVars>>

\* run, lines 42-52: systemd-sysctl on the sysctl file unless the marker exists
ApplySysctl ==
    /\ pc = "apply"
    /\ IF marker_missing(marker)
       THEN \E tool \in SysctlRuns :
                LET r == sysctl_apply_result(tool)
                IN  /\ IF tool.spawned
                       THEN /\ applied' = [input |-> sysctlConf, stderr |-> tool.stderr]
                            /\ ever' = [ever EXCEPT !.tool_ok = @ \/ tool.success,
                                                    !.inputs = @ \cup {sysctlConf}]
                            /\ events' = Append(events,
                                   IF tool.success THEN "tool_ok" ELSE "tool_failed")
                       ELSE UNCHANGED <<applied, ever, events>>
                    /\ IF r.ok THEN Goto("marker") ELSE Finish(r)
       ELSE /\ Finish(Ok("unit"))
            /\ UNCHANGED <<applied, ever, events>>
    /\ UNCHANGED <<iface, status, currentIp, resolvConf, sysctlConf, marker, start, prev,
                   runs, dnsVars, readerVars, nameVars, monitorVars>>

\* run, lines 54-61: create the marker; run returns
WriteMarker ==
    /\ pc = "marker"
    /\ \E created \in BOOLEAN :
           /\ marker' = (created \/ marker)
           /\ events' = Append(events, IF created THEN "marker" ELSE "marker_failed")
           /\ Finish(marker_write_result(created))
    /\ UNCHANGED <<iface, status, currentIp, resolvConf, sysctlConf, start, prev, runs,
                   applied, ever, dnsVars, readerVars, nameVars, monitorVars>>

\* the process is killed between two steps of run
Crash ==
    /\ pc # "idle"
    /\ Finish(Crashed)
    /\ UNCHANGED <<iface, status, currentIp, resolvConf, sysctlConf, marker, events, start,
                   prev, runs, applied, ever, dnsVars, readerVars, nameVars, monitorVars>>

Next ==
    \/ Start
    \/ GetLinkStatus
    \/ PrimaryAddress
    \/ WriteCurrentIp
    \/ WriteResolvConf
    \/ WriteInterfaceSysctl
    \/ ApplySysctl
    \/ WriteMarker
    \/ Crash

Spec == Init /\ [][Next]_vars

----------------------------------------------------------------------------
(* The status reader on its own: the child process and its output, or the  *)
(* bytes of one address, are drawn by InitStatus; the actions apply the     *)
(* functions of networkd_status.rs to them.                                 *)

\* address payloads: every length up to MaxOctets, in three fillings, and the
\* octets of the model's addresses
ByteSeqs ==
    UNION {{[i \in 1..n |-> 0], [i \in 1..n |-> 255], [i \in 1..n |-> (7 * i) % 256]} :
              n \in 0..MaxOctets}
    \cup {a.octets : a \in Addrs}

\* the entries of the Addresses array: family 2 (AF_INET), 10 (AF_INET6) or
\* another one, with a payload of 4, 16 or 3 bytes
AddressEntries ==
    {NetworkctlAddress(f, b) :
        f \in {2, 10, 0}, b \in {Addr1.octets, Addr2.octets, Addr6.octets, <<1, 2, 3>>}}

\* the standard output of networkctl, as serde_json reads it
StatusDocs ==
    [valid : BOOLEAN, name : {"eno1"}, addresses : SeqsUpTo(AddressEntries, MaxAddresses)]

\* the documents a failed run is given: one that would parse, one that would not
FewDocs ==
    {[valid |-> v, name |-> "eno1", addresses |-> <<NetworkctlAddress(2, Addr1.octets)>>] :
        v \in BOOLEAN}

\* how the networkctl child process can go, with its standard output
ReaderRuns ==
    {[spawned |-> FALSE, success |-> FALSE, stderr |-> <<>>, utf8 |-> TRUE, doc |-> d] :
        d \in FewDocs}
    \cup {[spawned |-> TRUE, success |-> FALSE, stderr |-> e, utf8 |-> u, doc |-> d] :
             e \in StderrBytes, u \in BOOLEAN, d \in FewDocs}
    \cup {[spawned |-> TRUE, success |-> TRUE, stderr |-> e, utf8 |-> FALSE, doc |-> d] :
             e \in StderrBytes, d \in FewDocs}
    \cup {[spawned |-> TRUE, success |-> TRUE, stderr |-> <<>>, utf8 |-> TRUE, doc |-> d] :
             d \in StatusDocs}

\* the child process as get_link_status sees it: json is what
\* serde_json::from_str makes of its standard output
WithJson(p) ==
    [spawned |-> p.spawned, success |-> p.success, stderr |-> p.stderr, utf8 |-> p.utf8,
     json |-> serde_json_from_str(p.doc)]

\* the DNS merger on its own is not in use
DnsIdle ==
    /\ dnsIn = [config |-> Absent, arg |-> [via |-> "none"]]
    /\ dnsOut = [phase |-> "none"]

Unset == Err("unset")

InitStatus ==
    /\ ResponderIdle
    /\ DnsIdle
    /\ NameIdle
    /\ MonitorIdle
    /\ rdIn \in {[kind |-> "bytes", bytes |-> b] : b \in ByteSeqs}
                \cup {[kind |-> "proc", proc |-> p] : p \in ReaderRuns}
    /\ rdOut = [phase |-> "input", decoded |-> Unset, addresses |-> Unset,
                status |-> Unset, primary |-> Unset]

\* ipaddr_from_vec on the drawn bytes
DecodeAddress ==
    /\ rdOut.phase = "input"
    /\ rdIn.kind = "bytes"
    /\ rdOut' = [rdOut EXCEPT !.phase = "decoded", !.decoded = ipaddr_from_vec(rdIn.bytes)]
    /\ UNCHANGED <<rdIn, responderVars, dnsVars, nameVars, monitorVars>>

\* get_link_status on the drawn child process; addresses is what
\* from_networkctl_addresses returned when the deserializer called it
ReadLinkStatus ==
    /\ rdOut.phase = "input"
    /\ rdIn.kind = "proc"
    /\ LET p == rdIn.proc
           parsed == p.spawned /\ p.success /\ p.utf8 /\ p.doc.valid
       IN  rdOut' = [rdOut EXCEPT
                         !.phase = "status",
                         !.addresses = IF parsed
                                       THEN from_networkctl_addresses(p.doc.addresses)
                                       ELSE Unset,
                         !.status = get_link_status(p.doc.name, WithJson(p))]
    /\ UNCHANGED <<rdIn, responderVars, dnsVars, nameVars, monitorVars>>

\* NetworkdStatus::primary_address on the status read
SelectPrimaryAddress ==
    /\ rdOut.phase = "status"
    /\ rdOut.status.ok
    /\ rdOut' = [rdOut EXCEPT !.phase = "primary",
                              !.primary = primary_address(rdOut.status.val)]
    /\ UNCHANGED <<rdIn, responderVars, dnsVars, nameVars, monitorVars>>

NextStatus == DecodeAddress \/ ReadLinkStatus \/ SelectPrimaryAddress

SpecStatus == InitStatus /\ [][NextStatus]_vars

----------------------------------------------------------------------------
(* interface_name.rs.  A String is the sequence of its chars (code points); *)
(* it is stored as UTF-8, and String::len counts the bytes of that.         *)

\* char::len_utf8
len_utf8(c) == IF c < 128 THEN 1 ELSE IF c < 2048 THEN 2 ELSE IF c < 65536 THEN 3 ELSE 4

RECURSIVE str_len(_)
\* String::len: the length in bytes
str_len(input) == IF input = <<>> THEN 0 ELSE len_utf8(Head(input)) + str_len(Tail(input))

\* try_from, lines 26-34: newline, carriage return, vertical tab, form feed,
\* next line, line separator, paragraph separator
line_terminators == <<10, 13, 11, 12, 133, 8232, 8233>>

\* char::is_whitespace: the code points with the White_Space property
is_whitespace(c) ==
    \/ c \in 9..13
    \/ c \in {32, 133, 160, 5760, 8232, 8233, 8239, 8287, 12288}
    \/ c \in 8192..8202

\* str::contains(char)
contains(input, c) == \E i \in 1..Len(input) : input[i] = c

InvalidNetworkDeviceName(input, msg) ==
    [ok |-> FALSE, kind |-> "InvalidNetworkDeviceName", input |-> input, msg |-> msg]

\* try_from without the test for '/'
try_from_no_slash(input) ==
    IF \E i \in 1..Len(line_terminators) : contains(input, line_terminators[i])
    THEN InvalidNetworkDeviceName(input, "contains line terminators")
    ELSE IF ~(input # <<>> /\ str_len(input) <= 15)
    THEN InvalidNetworkDeviceName(input, "invalid length, must be 1 to 15 characters long")
    ELSE IF ~(~contains(input, 46) /\ ~(\E i \in 1..Len(input) : is_whitespace(input[i])))
    THEN InvalidNetworkDeviceName(input, "contains invalid characters")
    ELSE Ok([inner |-> input])

\* TryFrom<String> for InterfaceName (46 is '.', 47 is '/')
try_from(input) ==
    IF \E i \in 1..Len(line_terminators) : contains(input, line_terminators[i])
    THEN InvalidNetworkDeviceName(input, "contains line terminators")
    ELSE IF ~(input # <<>> /\ str_len(input) <= 15)
    THEN InvalidNetworkDeviceName(input, "invalid length, must be 1 to 15 characters long")
    ELSE IF ~(/\ ~contains(input, 46)
              /\ ~contains(input, 47)
              /\ ~(\E i \in 1..Len(input) : is_whitespace(input[i])))
    THEN InvalidNetworkDeviceName(input, "contains invalid characters")
    ELSE Ok([inner |-> input])

\* Deref for InterfaceName
deref(self) == self.inner

\* Serialize for InterfaceName: the str handed to serialize_str
serialize(self) == self.inner

\* the chars of the model: a, 0, '.', '/', ':', space, tab, the seven line
\* terminators, no-break space, e with acute (2 bytes), the euro sign (3 bytes)
NameChars == {97, 48, 46, 47, 58, 32, 9, 10, 13, 11, 12, 133, 8232, 8233, 160, 233, 8364}

\* names of the tests: "eno1", "eth0", "f/eno1", "eno 1", ".."
TestNames ==
    {<<101, 110, 111, 49>>, <<101, 116, 104, 48>>, <<102, 47, 101, 110, 111, 49>>,
     <<101, 110, 111, 32, 49>>, <<46, 46>>}

\* the strings handed to try_from: n times 'a' for every n up to MaxNameLen,
\* the same with one char replaced by each char of the model, and the names
\* of the tests
NameInputs ==
    {[i \in 1..n |-> 97] : n \in 0..MaxNameLen}
    \cup {[i \in 1..n |-> IF i = k THEN c ELSE 97] :
             n \in 1..MaxNameLen, k \in 1..MaxNameLen, c \in NameChars}
    \cup TestNames

InitName ==
    /\ ResponderIdle
    /\ DnsIdle
    /\ ReaderIdle
    /\ MonitorIdle
    /\ nameIn \in NameInputs
    /\ nameOut = [phase |-> "input", result |-> Unset, deref |-> <<>>, serialized |-> <<>>]

\* InterfaceName::try_from on the drawn string
TryFromString ==
    /\ nameOut.phase = "input"
    /\ nameOut' = [nameOut EXCEPT !.phase = "constructed", !.result = try_from(nameIn)]
    /\ UNCHANGED <<nameIn, responderVars, dnsVars, readerVars, monitorVars>>

\* the constructed name is dereferenced and serialized
DerefAndSerialize ==
    /\ nameOut.phase = "constructed"
    /\ nameOut.result.ok
    /\ nameOut' = [nameOut EXCEPT !.phase = "read",
                                  !.deref = deref(nameOut.result.val),
                                  !.serialized = serialize(nameOut.result.val)]
    /\ UNCHANGED <<nameIn, responderVars, dnsVars, readerVars, monitorVars>>

NextName == TryFromString \/ DerefAndSerialize

SpecName == InitName /\ [][NextName]_vars

----------------------------------------------------------------------------
(* cli/subscribe_dbus.rs: run, the live monitor.  bus is the system bus as  *)
(* the task sees it: the links networkd manages, the link the OS designates *)
(* primary, the notifications waiting in the task's signal stream, whether  *)
(* the connection is alive, and the external stop signal.  mon is the task. *)

LinkNames == {"lo", "eth0", "eno1"}

\* the object path of a link, as networkd names it from the link's index
LinkPath(id) == "/org/freedesktop/network1/link/_3" \o ToString(id)

\* an entry of the reply of ListLinks
Link(id, name) == [id |-> id, name |-> name, path |-> LinkPath(id)]

\* the link lists of the model: up to MaxLinks links with indexes 1, 2, ..
\* and distinct names, one of them a name the OS can designate primary
LinkLists ==
    {l \in UNION {[1..n -> {Link(i, nm) : i \in 1..MaxLinks, nm \in LinkNames}] :
                     n \in 1..MaxLinks} :
        /\ \A i \in 1..Len(l) : l[i].id = i
        /\ \A i, j \in 1..Len(l) : l[i].name = l[j].name => i = j
        /\ \E i \in 1..Len(l) : l[i].name \in Ifaces}

\* the path of the link of a name in a list of links, if there is one
PathOf(links, name) ==
    IF \E i \in 1..Len(links) : links[i].name = name
    THEN Some(links[CHOOSE i \in 1..Len(links) : links[i].name = name].path)
    ELSE None

RECURSIVE select_primary(_, _)
\* run, lines 201-209: the loop over the links keeps the path of the last
\* link whose name is "eth0"
select_primary(links, path_to_primary) ==
    IF links = <<>> THEN path_to_primary
    ELSE select_primary(Tail(links),
                        IF Head(links).name = "eth0" THEN Some(Head(links).path)
                        ELSE path_to_primary)

\* run taking the next notification while the body of the loop still runs,
\* as a handler spawned as its own task would allow
awaits_next_spawning(at) == at \in {"watching", "handling"}

\* run, line 225: next() is awaited only between two runs of the loop's body
awaits_next(at) == at = "watching"

\* the error of a zbus call, returned through ?
ZbusError(call) == [ok |-> FALSE, kind |-> "zbus", call |-> call]

InitMonitor ==
    /\ ResponderIdle
    /\ DnsIdle
    /\ ReaderIdle
    /\ NameIdle
    /\ \E l \in LinkLists :
       \E p \in {l[i].name : i \in 1..Len(l)} \cap Ifaces :
           bus = [links |-> l, primary |-> p, queue |-> <<>>, delivered |-> <<>>,
                  sent |-> 0, flaps |-> 0, open |-> TRUE, stop |-> FALSE]
    /\ mon = [pc |-> "connect", links |-> <<>>, target |-> None, subscribed |-> FALSE,
              signal |-> None, handled |-> <<>>, result |-> Running]

\* run returns r or panics: the stream and the connection are dropped
Return(r) ==
    mon' = [mon EXCEPT !.pc = "returned", !.result = r, !.subscribed = FALSE,
                       !.signal = None]

\* run, lines 163-165: Connection::system().await, unwrapped
Connect ==
    /\ mon.pc = "connect"
    /\ \E ok \in BOOLEAN :
           IF ok THEN mon' = [mon EXCEPT !.pc = "manager"]
           ELSE Return(Panic("Connection::system"))
    /\ UNCHANGED <<bus, responderVars, dnsVars, readerVars, nameVars>>

\* run, lines 167-172: the systemd manager proxy, its architecture and
\* environment properties, each through ?
SystemdManager ==
    /\ mon.pc = "manager"
    /\ \E ok \in BOOLEAN :
           IF ok THEN mon' = [mon EXCEPT !.pc = "call_list_links"]
           ELSE Return(ZbusError("SystemdManagerProxy"))
    /\ UNCHANGED <<bus, responderVars, dnsVars, readerVars, nameVars>>

\* run, lines 174-192: call_method ListLinks and the body of the reply,
\* through ?; the links are printed
CallListLinks ==
    /\ mon.pc = "call_list_links"
    /\ \E ok \in BOOLEAN :
           IF ok THEN mon' = [mon EXCEPT !.pc = "list_links"]
           ELSE Return(ZbusError("ListLinks"))
    /\ UNCHANGED <<bus, responderVars, dnsVars, readerVars, nameVars>>

\* run, lines 194-199: the network manager proxy through ?, then
\* list_links().await, unwrapped
ListLinks ==
    /\ mon.pc = "list_links"
    /\ \E r \in {"ok", "proxy", "list_links"} :
           CASE r = "ok" -> mon' = [mon EXCEPT !.pc = "select", !.links = bus.links]
             [] r = "proxy" -> Return(ZbusError("NetworkManagerProxy"))
             [] OTHER -> Return(Panic("list_links"))
    /\ UNCHANGED <<bus, responderVars, dnsVars, readerVars, nameVars>>

\* run, lines 201-216: the primary link is the one named "eth0"
SelectPrimary ==
    /\ mon.pc = "select"
    /\ mon' = [mon EXCEPT !.pc = "subscribe", !.target = select_primary(mon.links, None)]
    /\ UNCHANGED <<bus, responderVars, dnsVars, readerVars, nameVars>>

\* run, lines 218-224 and 280: without a path run returns Ok(()); with one,
\* the properties proxy is built and receive_properties_changed subscribes,
\* each through ?
Subscribe ==
    /\ mon.pc = "subscribe"
    /\ IF ~mon.target.some THEN Return(Ok("unit"))
       ELSE \E r \in {"ok", "builder", "receive"} :
                CASE r = "ok" -> mon' = [mon EXCEPT !.pc = "watching", !.subscribed = TRUE]
                  [] r = "builder" -> Return(ZbusError("PropertiesProxy"))
                  [] OTHER -> Return(ZbusError("receive_properties_changed"))
    /\ UNCHANGED <<bus, responderVars, dnsVars, readerVars, nameVars>>

\* run, line 225: while let Some(signal) = link_props_changed.next().await.
\* The task waits while the stream is empty and the connection alive; when
\* the stream has ended the loop is left and run returns Ok(()) (line 280)
NextSignal ==
    /\ awaits_next(mon.pc)
    /\ IF bus.queue # <<>>
       THEN /\ mon' = [mon EXCEPT !.pc = "handling", !.signal = Some(Head(bus.queue))]
            /\ bus' = [bus EXCEPT !.queue = Tail(bus.queue)]
       ELSE /\ ~bus.open
            /\ Return(Ok("unit"))
            /\ UNCHANGED bus
    /\ UNCHANGED <<responderVars, dnsVars, readerVars, nameVars>>

\* run, lines 226-235: signal.args()? and the printing of the changed
\* properties; nothing else is done with the notification
HandleSignal ==
    /\ mon.pc = "handling"
    /\ IF mon.signal.val.decodable
       THEN mon' = [mon EXCEPT !.pc = "watching", !.signal = None,
                               !.handled = Append(mon.handled, mon.signal.val.id)]
       ELSE Return([ok |-> FALSE, kind |-> "zbus", call |-> "args",
                    id |-> mon.signal.val.id])
    /\ UNCHANGED <<bus, responderVars, dnsVars, readerVars, nameVars>>

\* the bus emits PropertiesChanged for the object of a link; it reaches the
\* task's stream when the task is subscribed to that object's path
Notify ==
    /\ bus.open
    /\ bus.sent < MaxNotifications
    /\ \E i \in 1..Len(bus.links), decodable \in BOOLEAN :
           LET signal == [id |-> bus.sent + 1, path |-> bus.links[i].path,
                          decodable |-> decodable]
               reaches == mon.subscribed /\ mon.target = Some(signal.path)
           IN  bus' = [bus EXCEPT
                           !.sent = bus.sent + 1,
                           !.queue = IF reaches THEN Append(bus.queue, signal) ELSE bus.queue,
                           !.delivered = IF reaches THEN Append(bus.delivered, signal.id)
                                         ELSE bus.delivered]
    /\ UNCHANGED <<mon, responderVars, dnsVars, readerVars, nameVars>>

\* the process owner raises the stop signal
RaiseStop ==
    /\ ~bus.stop
    /\ bus' = [bus EXCEPT !.stop = TRUE]
    /\ UNCHANGED <<mon, responderVars, dnsVars, readerVars, nameVars>>

\* the connection to the bus is lost: the signal stream ends after what it holds
Disconnect ==
    /\ bus.open
    /\ mon.pc \notin {"connect", "returned"}
    /\ bus' = [bus EXCEPT !.open = FALSE]
    /\ UNCHANGED <<mon, responderVars, dnsVars, readerVars, nameVars>>

\* the primary link disappears and reappears: it comes back under a new index
LinkReappears ==
    /\ bus.flaps < MaxFlaps
    /\ LET i == CHOOSE k \in 1..Len(bus.links) : bus.links[k].name = bus.primary
           fresh == Len(bus.links) + bus.flaps + 1
       IN  bus' = [bus EXCEPT !.flaps = bus.flaps + 1,
                              !.links[i] = Link(fresh, bus.primary)]
    /\ UNCHANGED <<mon, responderVars, dnsVars, readerVars, nameVars>>

\* the steps of the task
MonitorStep ==
    \/ Connect
    \/ SystemdManager
    \/ CallListLinks
    \/ ListLinks
    \/ SelectPrimary
    \/ Subscribe
    \/ NextSignal
    \/ HandleSignal

\* the steps of the bus and of the process owner
BusStep == Notify \/ RaiseStop \/ Disconnect \/ LinkReappears

NextMonitor == MonitorStep \/ BusStep

SpecMonitor == InitMonitor /\ [][NextMonitor]_vars

\* the task is scheduled: a step it can take is taken
SpecMonitorFair == SpecMonitor /\ WF_vars(MonitorStep)

----------------------------------------------------------------------------
(* Properties of the update responder (Spec).  events, start and applied   *)
(* describe the invocation that runs or, when pc = "idle", the one that    *)
(* ended last; prev describes the one before it.                           *)

\* the kind of a result: "ok", or the kind of the error
KindOf(r) == IF r.ok THEN "ok" ELSE r.kind

Did(ev, tag) == \E i \in 1..Len(ev) : ev[i] = tag

\* how often the apply tool ran
ToolRuns(ev) == Cardinality({i \in 1..Len(ev) : ev[i] \in {"tool_ok", "tool_failed"}})

\* what the sysctl applier did, in order
ApplierEvents(ev) ==
    SelectSeq(ev, LAMBDA e : e \in {"sysctl_conf", "tool_ok", "tool_failed", "marker",
                                    "marker_failed"})

\* the invocation went past the apply step of run
PastApply == pc = "marker" \/ (pc = "idle" /\ result.ok)

\* the invocation returned Ok and none of its steps failed
Succeeded == pc = "idle" /\ result.ok /\ ~Did(events, "marker_failed")

\* C1 as stated: an invocation that starts with the marker present never
\* writes the sysctl file and never runs the apply tool, whatever the state of
\* the sysctl file.  (Refuted: with the sysctl file absent it is written.)
C1_NoWriteNoTool ==
    (runs > 0 /\ start.marker) =>
        (~Did(events, "sysctl_conf") /\ ToolRuns(events) = 0)

\* C1, amended: an invocation that starts with the marker present never runs
\* the apply tool, and writes the sysctl file only when that file did not
\* exist at its start.
C1_MarkerSkipsTool ==
    (runs > 0 /\ start.marker) =>
        /\ ToolRuns(events) = 0
        /\ marker
        /\ Did(events, "sysctl_conf") => ~start.sysctl.exists
        /\ start.sysctl.exists => sysctlConf = start.sysctl

C1_Witness ==
    /\ start.marker
    /\ start.sysctl.exists
    /\ pc = "idle"
    /\ result = Ok("unit")
    /\ events = <<"current_ip", "resolv_conf">>

\* C2: an invocation that starts with neither the sysctl file nor the marker,
\* whose apply tool succeeds and whose steps all succeed, writes the sysctl
\* file, then runs the apply tool exactly once against the file it wrote,
\* then creates the marker.
C2_FirstInvocation ==
    (Succeeded /\ runs > 0 /\ ~start.marker /\ ~start.sysctl.exists) =>
        /\ ApplierEvents(events) = <<"sysctl_conf", "tool_ok", "marker">>
        /\ ToolRuns(events) = 1
        /\ sysctlConf = FileOf(sysctl_conf(iface))
        /\ applied.input = sysctlConf
        /\ marker

C2_Witness ==
    /\ Succeeded
    /\ runs = 1
    /\ ~start.marker
    /\ ~start.sysctl.exists
    /\ Did(events, "tool_ok")
    /\ marker

\* C3: after an invocation that crashed or failed with the marker not yet
\* created, an invocation whose steps all succeed and whose apply tool
\* succeeds has run the tool against a sysctl file holding both tunable lines
\* of an interface, and ends with the marker present.  (Refuted: a write of
\* the sysctl file cut short leaves a file that is never rewritten.)
C3_Reentrant ==
    (/\ Succeeded
     /\ runs > 1
     /\ ~prev.result.ok
     /\ ~start.marker
     /\ Did(events, "tool_ok")) =>
        /\ \E n \in Ifaces : applied.input = FileOf(sysctl_conf(n))
        /\ marker

\* C4: when the apply tool exits non-zero the invocation ends at once with
\* FailedSystemdSysctl carrying the tool's standard error as text, the marker
\* is not created, and the next invocation that gets as far runs the tool again.
C4_ApplyFailed ==
    /\ Did(events, "tool_failed") =>
           /\ pc = "idle"
           /\ result = ErrWith("FailedSystemdSysctl", from_utf8_lossy(applied.stderr))
           /\ applied.stderr = <<101, 114, 114>> => result.stderr = "err"
           /\ ~marker
           /\ ~Did(events, "marker")
    /\ (runs > 1 /\ KindOf(prev.result) = "FailedSystemdSysctl" /\ PastApply) =>
           ToolRuns(events) = 1

C4_Witness ==
    /\ runs > 1
    /\ Did(prev.events, "tool_failed")
    /\ prev.result = ErrWith("FailedSystemdSysctl", "e<U+FFFD>")
    /\ pc = "idle"
    /\ result.ok
    /\ Did(events, "tool_ok")

\* C5: when the apply tool succeeds and creating the marker fails, the
\* invocation returns Ok, no file other than the marker is affected, the marker
\* is absent, and the next invocation that gets as far runs the tool again
\* without rewriting the sysctl file.
C5_MarkerFailure ==
    /\ Did(events, "marker_failed") =>
           /\ pc = "idle"
           /\ result = Ok("unit")
           /\ Did(events, "tool_ok")
           /\ ~marker
           /\ sysctlConf = applied.input
    /\ (runs > 1 /\ Did(prev.events, "marker_failed") /\ PastApply) =>
           /\ ToolRuns(events) = 1
           /\ ~Did(events, "sysctl_conf")

C5_Witness ==
    /\ runs > 1
    /\ Did(prev.events, "marker_failed")
    /\ prev.result = Ok("unit")
    /\ pc = "idle"
    /\ result.ok
    /\ Did(events, "tool_ok")
    /\ marker

\* C27: a sysctl file written in full by an invocation for interface N is
\* exactly the two lines "-net.ipv6.conf.N.accept_ra = 2" and
\* "-net.ipv4.conf.N.rp_filter = 2", in this order, each starting with "-"
\* and ending with a newline.
C27_SysctlContent ==
    (pc = "apply" /\ Did(events, "sysctl_conf")) =>
        /\ sysctlConf.exists
        /\ Len(sysctlConf.content) = 2
        /\ iface = "eno1" =>
               sysctlConf.content = <<"-net.ipv6.conf.eno1.accept_ra = 2\n",
                                      "-net.ipv4.conf.eno1.rp_filter = 2\n">>
        /\ iface = "eth0" =>
               sysctlConf.content = <<"-net.ipv6.conf.eth0.accept_ra = 2\n",
                                      "-net.ipv4.conf.eth0.rp_filter = 2\n">>

C27_Witness ==
    /\ pc = "apply"
    /\ iface = "eth0"
    /\ events = <<"current_ip", "resolv_conf", "sysctl_conf">>
    /\ sysctlConf.content[1] = "-net.ipv6.conf.eth0.accept_ra = 2\n"

\* C28: when there is no marker at first, then over any sequence of
\* invocations, tool failures and crashes the marker exists only if the apply
\* tool has exited successfully in the current or an earlier invocation, and
\* every file the tool was run against existed: the tool is never invoked
\* with the sysctl file never written.
C28_MarkerInvariant ==
    ~ever.marker =>
        /\ marker => ever.tool_ok
        /\ \A f \in ever.inputs : f.exists
        /\ ToolRuns(events) > 0 => applied.input \in ever.inputs

C28_Witness ==
    /\ ~ever.marker
    /\ runs = MaxRuns
    /\ Did(prev.events, "tool_failed")
    /\ Did(events, "tool_ok")
    /\ Did(events, "marker")
    /\ marker
    /\ Cardinality(ever.inputs) = 1

\* the place of an artifact in the order of the steps of run
Rank(tag) ==
    CASE tag = "current_ip" -> 1
      [] tag = "resolv_conf" -> 2
      [] tag = "sysctl_conf" -> 3
      [] tag \in {"tool_ok", "tool_failed"} -> 4
      [] tag \in {"marker", "marker_failed"} -> 5

\* the step at which an invocation that returned this error failed
FailRank(kind) ==
    CASE kind \in {"PrimaryInterface", "panic"} -> 0
      [] kind = "CurrentIpWriteFailed" -> 1
      [] kind \in {"GetDnsSettings", "ResolvConfWriteFailed"} -> 2
      [] kind = "SysctlConfWrite" -> 3
      [] kind \in {"SystemdSysctlExecution", "FailedSystemdSysctl"} -> 4
      [] OTHER -> 5

\* the invocation got past step k: the program counter stands before a
\* later step, or a later step has acted
After(k) ==
    LET PcRank == CASE pc = "write_current_ip" -> 1
                    [] pc = "write_resolv_conf" -> 2
                    [] pc = "sysctl_conf" -> 3
                    [] pc = "apply" -> 4
                    [] pc = "marker" -> 5
                    [] OTHER -> 0
    IN  PcRank > k \/ \E i \in 1..Len(events) : Rank(events[i]) > k

\* C29: an invocation touches its artifacts in the order current-IP file,
\* resolver file, sysctl file, apply tool, marker; an artifact it has not
\* touched is as the invocation found it; when a step fails no later step
\* has acted (after a failed status query or address selection none has),
\* while the artifacts of the steps before stay written; and past its first
\* step the current-IP file holds the string form of the primary address.
C29_StepOrder ==
    runs > 0 =>
        /\ \A i, j \in 1..Len(events) : i < j => Rank(events[i]) < Rank(events[j])
        /\ ~Did(events, "current_ip") => currentIp = start.currentIp
        /\ ~Did(events, "resolv_conf") => resolvConf = start.resolvConf
        /\ ~Did(events, "sysctl_conf") => sysctlConf = start.sysctl
        /\ ~Did(events, "marker") => marker = start.marker
        /\ (pc = "idle" /\ ~result.ok) =>
               \A i \in 1..Len(events) : Rank(events[i]) <= FailRank(result.kind)
        /\ After(1) =>
               /\ Did(events, "current_ip")
               /\ currentIp = FileOf(<<IpToString(primary_address(status.val).val)>>)
               /\ status.val.addresses = <<Addr1>> => currentIp.content = <<"1.2.3.4">>
               /\ status.val.addresses = <<Addr6, Addr2>> =>
                      currentIp.content = <<"192.168.0.2">>
        /\ After(2) => Did(events, "resolv_conf") /\ resolvConf.exists
        /\ After(3) => sysctlConf.exists
        /\ After(4) => Did(events, "tool_ok")

C29_Witness ==
    /\ runs = 2
    /\ prev.events = <<"current_ip", "resolv_conf", "sysctl_conf", "tool_ok", "marker">>
    /\ pc = "idle"
    /\ result = Panic("NoIpAddress")
    /\ events = <<>>
    /\ currentIp = FileOf(<<"192.168.0.2">>)
    /\ resolvConf.exists
    /\ resolvConf = start.resolvConf

\* C30: an invocation that finds the sysctl file leaves its content as it
\* is, also when its primary interface is not the one the file names; when
\* it runs the apply tool (the marker missing), the tool runs once, against
\* that content.
C30_WriteOnce ==
    (runs > 0 /\ start.sysctl.exists) =>
        /\ sysctlConf = start.sysctl
        /\ ~Did(events, "sysctl_conf")
        /\ ToolRuns(events) > 0 => (~start.marker /\ applied.input = start.sysctl)
        /\ (~start.marker /\ PastApply) => ToolRuns(events) = 1

C30_Witness ==
    /\ runs = 2
    /\ Did(prev.events, "sysctl_conf")
    /\ start.sysctl = FileOf(sysctl_conf("eno1"))
    /\ iface = "eth0"
    /\ ~start.marker
    /\ Did(events, "tool_ok")
    /\ applied.input = FileOf(<<"-net.ipv6.conf.eno1.accept_ra = 2\n",
                                "-net.ipv4.conf.eno1.rp_filter = 2\n">>)

----------------------------------------------------------------------------
(* Properties of the DNS merger and the resolver writer (SpecDns) *)

\* the inputs have been merged
Merged == dnsOut.phase \in {"merged", "written"}

\* the static configuration file holds text (it exists and is not empty)
ConfigPresent == dnsIn.config.exists /\ dnsIn.config.len # 0

\* what the static configuration sets: nothing when the file is absent or empty
StaticSettings == IF ConfigPresent THEN dnsIn.config.toml.val ELSE DefaultSettings

\* the nameservers the lease or status argument supplies
ArgNameservers ==
    IF dnsIn.arg.via = "lease"
    THEN IF dnsIn.arg.lease.some THEN dnsIn.arg.lease.val.dns_servers ELSE None
    ELSE IF dnsIn.arg.status.dns.some
    THEN Some({r.address : r \in Range(dnsIn.arg.status.dns.val)})
    ELSE None

\* the search list the lease or status argument supplies
ArgSearch ==
    IF dnsIn.arg.via = "lease"
    THEN IF dnsIn.arg.lease.some THEN dnsIn.arg.lease.val.dns_search ELSE None
    ELSE IF dnsIn.arg.status.search_domains.some
    THEN Some([i \in 1..Len(dnsIn.arg.status.search_domains.val) |->
                   dnsIn.arg.status.search_domains.val[i].domain])
    ELSE None

\* C6: when the static configuration sets both nameservers and search list,
\* from_config_or_lease and from_config_or_status return the static
\* configuration, whatever the lease or status holds.
C6_StaticWins ==
    (/\ Merged
     /\ ConfigPresent
     /\ dnsIn.config.toml.ok
     /\ dnsIn.config.toml.val.nameservers.some
     /\ dnsIn.config.toml.val.search.some
     /\ dnsOut.io = IoOk) =>
        dnsOut.settings = Ok(dnsIn.config.toml.val)

C6_Witness ==
    /\ Merged
    /\ dnsIn.arg.via = "status"
    /\ dnsIn.config.toml = Ok([nameservers |-> Some({Addr1}),
                               search |-> Some(<<"foo.bar.baz">>)])
    /\ ArgNameservers = Some({Addr2, Addr6})
    /\ ArgSearch = Some(<<"us-west-2.compute.internal">>)
    /\ dnsOut.settings = Ok(dnsIn.config.toml.val)

\* C7: each field of the merged settings is the static value when the static
\* configuration sets it, and otherwise the value of the lease or status
\* (unset when that is unset too): never a union or mixture of the two.
C7_PerField ==
    (Merged /\ dnsOut.settings.ok) =>
        /\ dnsOut.settings.val.nameservers =
               IF StaticSettings.nameservers.some THEN StaticSettings.nameservers
               ELSE ArgNameservers
        /\ dnsOut.settings.val.search =
               IF StaticSettings.search.some THEN StaticSettings.search ELSE ArgSearch

C7_Witness ==
    /\ Merged
    /\ dnsIn.arg.via = "lease"
    /\ ConfigPresent
    /\ StaticSettings = [nameservers |-> Some({Addr1, Addr2}), search |-> None]
    /\ ArgNameservers = Some({Addr2, Addr6})
    /\ ArgSearch = Some(<<"foo.bar.baz">>)
    /\ dnsOut.settings =
           Ok([nameservers |-> Some({Addr1, Addr2}), search |-> Some(<<"foo.bar.baz">>)])

\* C8: loading an absent or zero-length static configuration gives the default
\* settings (both fields unset) and no error; loading a non-empty file whose
\* text does not parse gives an error, DnsConfParse once the text is read, and
\* the caller gets that error: never default or partial settings.
C8_LoadConfig ==
    Merged =>
        /\ ~dnsIn.config.exists => dnsOut.loaded = Ok(DefaultSettings)
        /\ (dnsIn.config.exists /\ dnsIn.config.len = 0 /\ dnsOut.io.meta) =>
               dnsOut.loaded = Ok([nameservers |-> None, search |-> None])
        /\ (ConfigPresent /\ ~dnsIn.config.toml.ok) =>
               /\ ~dnsOut.loaded.ok
               /\ dnsOut.settings = dnsOut.loaded
               /\ dnsOut.io = IoOk => dnsOut.loaded = Err("DnsConfParse")

C8_Witness ==
    /\ Merged
    /\ ConfigPresent
    /\ ~dnsIn.config.toml.ok
    /\ dnsOut.io = IoOk
    /\ ArgNameservers = Some({Addr1})
    /\ dnsOut.settings = Err("DnsConfParse")

\* the lease or status argument supplies neither nameservers nor search list
ArgEmpty == ArgNameservers = None /\ ArgSearch = None

\* C9: with the static configuration absent or empty and a lease or status
\* that supplies neither field, the merge returns settings with both fields
\* unset and no error, and the resolver file written from them is empty.
C9_EmptyDocument ==
    (Merged /\ ~ConfigPresent /\ ArgEmpty /\ (dnsIn.config.exists => dnsOut.io.meta)) =>
        /\ dnsOut.settings = Ok([nameservers |-> None, search |-> None])
        /\ (dnsOut.phase = "written" /\ dnsOut.written.ok) =>
               /\ dnsOut.file = FileOf(<<>>)
               /\ Concat(dnsOut.file.content) = ""

C9_Witness ==
    /\ dnsOut.phase = "written"
    /\ dnsOut.written.ok
    /\ dnsIn.config.exists
    /\ dnsIn.config.len = 0
    /\ dnsIn.arg.via = "status"
    /\ ArgEmpty
    /\ dnsOut.file = FileOf(<<>>)

\* the orders of the members of S: the sequences that hold each member once
OrdersOf(S) ==
    {o \in [1..Cardinality(S) -> S] : \A a \in S : \E i \in 1..Cardinality(S) : o[i] = a}

\* the resolver file holding the search line of the settings, then the
\* addresses of o, one nameserver line each
ResolvConfWith(st, o) ==
    FileOf((IF st.search.some THEN <<SearchLine(st.search.val)>> ELSE <<>>)
               \o [i \in 1..Len(o) |-> "nameserver " \o IpToString(o[i]) \o "\n"])

\* C10: the nameserver lines of a resolver file written from a nameserver set
\* are a permutation of the set: one line for each member, no line for any
\* other address, no line twice; and every permutation of the set is a file
\* that write_resolv_conf_impl can produce from the settings.
C10_Permutation ==
    (Merged /\ dnsOut.settings.ok /\ dnsOut.settings.val.nameservers.some) =>
        LET st == dnsOut.settings.val
            S == st.nameservers.val
            lines == dnsOut.file.content
            isNs(l) == \E a \in Addrs : l = "nameserver " \o IpToString(a) \o "\n"
        IN  /\ (dnsOut.phase = "written" /\ dnsOut.written.ok) =>
                   /\ \A a \in S :
                          Cardinality({i \in 1..Len(lines) :
                              lines[i] = "nameserver " \o IpToString(a) \o "\n"}) = 1
                   /\ Cardinality({i \in 1..Len(lines) : isNs(lines[i])}) = Cardinality(S)
                   /\ \E o \in OrdersOf(S) : dnsOut.file = ResolvConfWith(st, o)
            /\ \A o \in OrdersOf(S) :
                   \E buf \in ResolvConfOutputs(st) :
                   \E w \in FsWriteOutcomes(dnsOut.file, buf) :
                       w.ok /\ w.file = ResolvConfWith(st, o)

C10_Witness ==
    /\ dnsOut.phase = "written"
    /\ dnsOut.written.ok
    /\ dnsOut.settings.val.nameservers = Some({Addr1, Addr2})
    /\ dnsOut.file.content = <<"nameserver 192.168.0.2\n", "nameserver 1.2.3.4\n">>

\* the resolver file was written in full from the merged settings
Written == dnsOut.phase = "written" /\ dnsOut.written.ok

RECURSIVE SpacedFrom(_, _)
\* the first n domains of a list, each after the first preceded by one space
SpacedFrom(list, n) ==
    IF n = 0 THEN ""
    ELSE IF n = 1 THEN list[1]
    ELSE SpacedFrom(list, n - 1) \o " " \o list[n]

\* a line of the resolver file is the nameserver line of some address
IsNameserverLine(l) == \E a \in Addrs : l = "nameserver " \o IpToString(a) \o "\n"

\* C11: a resolver file written from settings whose search list is set starts
\* with the search line, "search " and the domains in their order separated by
\* single spaces; every other line is a nameserver line, one for each
\* nameserver (one domain D and one nameserver A give "search D\nnameserver A\n").
C11_SearchFirst ==
    (Written /\ dnsOut.settings.val.search.some) =>
        LET lines == dnsOut.file.content
            list == dnsOut.settings.val.search.val
            ns == dnsOut.settings.val.nameservers
        IN  /\ Len(lines) = 1 + (IF ns.some THEN Cardinality(ns.val) ELSE 0)
            /\ lines[1] = "search " \o SpacedFrom(list, Len(list)) \o "\n"
            /\ \A i \in 2..Len(lines) : IsNameserverLine(lines[i])
            /\ ~IsNameserverLine(lines[1])
            /\ (list = <<"us-west-2.compute.internal">> /\ ns = Some({Addr2})) =>
                   Concat(lines) = "search us-west-2.compute.internal\nnameserver 192.168.0.2\n"
            /\ list = <<"us-west-2.compute.internal", "foo.bar.baz">> =>
                   lines[1] = "search us-west-2.compute.internal foo.bar.baz\n"

C11_Witness ==
    /\ Written
    /\ dnsOut.settings.val.search = Some(<<"us-west-2.compute.internal", "foo.bar.baz">>)
    /\ dnsOut.settings.val.nameservers = Some({Addr1, Addr6})
    /\ dnsOut.file.content =
           <<"search us-west-2.compute.internal foo.bar.baz\n",
             "nameserver 2001:db8::1\n", "nameserver 1.2.3.4\n">>

\* C12: when the static configuration sets no nameservers and the status has
\* DNS records, the merged nameservers are the set of the records' addresses,
\* an address listed in several records held once, and the resolver file
\* written from them has exactly one nameserver line for each address.
C12_Deduplicated ==
    (/\ Merged
     /\ dnsIn.arg.via = "status"
     /\ dnsOut.settings.ok
     /\ ~StaticSettings.nameservers.some
     /\ dnsIn.arg.status.dns.some) =>
        LET recs == dnsIn.arg.status.dns.val
            ns == dnsOut.settings.val.nameservers
            lines == dnsOut.file.content
        IN  /\ ns.some
            /\ \A i \in 1..Len(recs) : recs[i].address \in ns.val
            /\ \A a \in ns.val : \E i \in 1..Len(recs) : recs[i].address = a
            /\ Cardinality(ns.val) <= Len(recs)
            /\ Written =>
                   /\ \A i \in 1..Len(recs) :
                          Cardinality({k \in 1..Len(lines) :
                              lines[k] = "nameserver " \o IpToString(recs[i].address) \o "\n"}) = 1
                   /\ Cardinality({k \in 1..Len(lines) : IsNameserverLine(lines[k])}) =
                          Cardinality(ns.val)

C12_Witness ==
    /\ Written
    /\ dnsIn.arg.via = "status"
    /\ ~ConfigPresent
    /\ dnsIn.arg.status.dns = Some(<<DnsRecord(Addr2), DnsRecord(Addr2)>>)
    /\ dnsOut.settings.val.nameservers = Some({Addr2})
    /\ dnsOut.file.content = <<"nameserver 192.168.0.2\n">>

----------------------------------------------------------------------------
(* Properties of the status reader (SpecStatus) *)

\* C13: primary_address on an empty address list fails with NoIpAddress; on a
\* list of one address it returns that address, IPv4 or IPv6; on a longer list
\* it returns the first IPv4 address in list order, whatever its position, and
\* fails with NoIpAddress when the list holds no IPv4 address.
C13_PrimaryAddress ==
    rdOut.phase = "primary" =>
        LET l == rdOut.status.val.addresses
            r == rdOut.primary
        IN  /\ Len(l) = 0 => r = Err("NoIpAddress")
            /\ Len(l) = 1 => r = Ok(l[1])
            /\ Len(l) > 1 =>
                   IF \E i \in 1..Len(l) : ~l[i].v6
                   THEN \E i \in 1..Len(l) :
                            /\ ~l[i].v6
                            /\ \A j \in 1..(i - 1) : l[j].v6
                            /\ r = Ok(l[i])
                   ELSE r = Err("NoIpAddress")

C13_Witness ==
    /\ rdOut.phase = "primary"
    /\ rdOut.status.val.addresses = <<Addr6, Addr6, Addr2>>
    /\ rdOut.primary = Ok(V4(192, 168, 0, 2))

\* C14: ipaddr_from_vec decodes 4 octets to the IPv4 address with those
\* octets and 16 octets to the IPv6 address with those octets, and fails on
\* every other length, 0 included, with BadIpAddress carrying the input.
C14_ByteDecoding ==
    rdOut.phase = "decoded" =>
        LET b == rdIn.bytes
            r == rdOut.decoded
        IN  /\ Len(b) = 4 => (r.ok /\ ~r.val.v6 /\ r.val.octets = b)
            /\ Len(b) = 16 => (r.ok /\ r.val.v6 /\ r.val.octets = b)
            /\ Len(b) \notin {4, 16} =>
                   (~r.ok /\ r.kind = "BadIpAddress" /\ r.input = b)
            /\ b = <<1, 2, 3, 4>> => IpToString(r.val) = "1.2.3.4"
            /\ b = <<32, 1, 13, 184, 0, 0, 0, 0, 0, 0, 0, 0, 0, 0, 0, 1>> =>
                   IpToString(r.val) = "2001:db8::1"

C14_Witness ==
    /\ rdOut.phase = "decoded"
    /\ Len(rdIn.bytes) = 16
    /\ rdIn.bytes[16] = 112
    /\ rdOut.decoded.ok
    /\ rdOut.decoded.val.v6
    /\ rdOut.decoded.val.octets[16] = 112

\* an address entry whose family tag and payload length agree
FamilyMatches(e) ==
    \/ e.family = 2 /\ Len(e.address) = 4
    \/ e.family = 10 /\ Len(e.address) = 16

\* C15: the address entries of a status document decode exactly when every
\* entry is family 2 with 4 bytes or family 10 with 16 bytes; any other
\* combination of family and length is a decode error.  (Refuted: the family
\* tag is not looked at.)
C15_FamilyAndPayload ==
    (rdIn.kind = "proc" /\ rdOut.phase \in {"status", "primary"} /\ rdOut.addresses # Unset) =>
        LET es == rdIn.proc.doc.addresses
        IN  rdOut.addresses.ok <=> \A i \in 1..Len(es) : FamilyMatches(es[i])

\* the child process ran and exited with success
QuerySucceeded == rdIn.proc.spawned /\ rdIn.proc.success

\* C16: when the status query succeeds and its output is not valid UTF-8 or
\* not a document of the schema, get_link_status returns an error to its
\* caller.  (Refuted: it panics.)
C16_ParseFailure ==
    (/\ rdIn.kind = "proc"
     /\ rdOut.phase \in {"status", "primary"}
     /\ QuerySucceeded
     /\ (~rdIn.proc.utf8 \/ ~serde_json_from_str(rdIn.proc.doc).ok)) =>
        (~rdOut.status.ok /\ rdOut.status.kind # "panic")

\* C17: when the status query process cannot be run, get_link_status returns
\* NetworkctlExecution; when it exits non-zero, FailedNetworkctl with the
\* standard error as text; in both cases whatever the standard output holds,
\* which is not parsed.
C17_QueryFailure ==
    (rdIn.kind = "proc" /\ rdOut.phase = "status") =>
        LET p == rdIn.proc
        IN  /\ ~p.spawned => rdOut.status = Err("NetworkctlExecution")
            /\ (p.spawned /\ ~p.success) =>
                   /\ rdOut.status.kind = "FailedNetworkctl"
                   /\ rdOut.status.stderr = from_utf8_lossy(p.stderr)
                   /\ p.stderr = <<101, 114, 114>> => rdOut.status.stderr = "err"
            /\ ~QuerySucceeded =>
                   /\ ~rdOut.status.ok
                   /\ rdOut.status.kind # "panic"
                   /\ rdOut.addresses = Unset

C17_Witness ==
    /\ rdIn.kind = "proc"
    /\ rdOut.phase = "status"
    /\ rdIn.proc.spawned
    /\ ~rdIn.proc.success
    /\ ~rdIn.proc.utf8
    /\ ~rdIn.proc.doc.valid
    /\ rdOut.status = ErrWith("FailedNetworkctl", "err")

\* how often an invocation did something to an artifact
Count(ev, tag) == Cardinality({i \in 1..Len(ev) : ev[i] = tag})

\* C18: an invocation of the update responder that ends because one of its
\* steps failed returns that step's error to its caller: it does not panic;
\* and no step runs twice in one invocation.  (Refuted: the failures of
\* get_link_status and primary_address are unwrapped.)
C18_ErrorsReturned ==
    /\ (pc = "idle" /\ runs > 0 /\ ~result.ok /\ result # Crashed) => result.kind # "panic"
    /\ \A tag \in {"current_ip", "resolv_conf", "sysctl_conf", "tool_ok", "tool_failed",
                   "marker", "marker_failed"} : Count(events, tag) <= 1

----------------------------------------------------------------------------
(* Properties of InterfaceName (SpecName) *)

\* the chars the specification forbids in a name: '.', '/', the whitespace of
\* the model's chars, and the listed line terminators
Forbidden == {46, 47, 32, 9, 160, 10, 13, 11, 12, 133, 8232, 8233}

HasForbidden(input) == \E i \in 1..Len(input) : input[i] \in Forbidden

\* C19: for every string of 1 to 15 characters none of which is forbidden,
\* try_from succeeds and the name derefs and serializes to the same string.
\* (Refuted: the length is counted in bytes.)
C19_AcceptsValid ==
    (Len(nameIn) \in 1..15 /\ ~HasForbidden(nameIn)) =>
        /\ nameOut.phase # "input" => nameOut.result.ok
        /\ nameOut.phase = "read" => (nameOut.deref = nameIn /\ nameOut.serialized = nameIn)

\* C20: try_from fails for the empty string, for every string of 16 or more
\* characters and for every string holding a forbidden character, and the
\* error carries the string as given; a name that is constructed holds the
\* string as given, never a shortened or repaired one.
C20_RejectsInvalid ==
    nameOut.phase # "input" =>
        /\ (nameIn = <<>> \/ Len(nameIn) >= 16 \/ HasForbidden(nameIn)) =>
               /\ ~nameOut.result.ok
               /\ nameOut.result.kind = "InvalidNetworkDeviceName"
               /\ nameOut.result.input = nameIn
        /\ nameOut.result.ok =>
               /\ nameOut.result.val.inner = nameIn
               /\ nameOut.phase = "read" => nameOut.deref = nameIn

C20_Witness ==
    /\ nameOut.phase = "constructed"
    /\ Len(nameIn) = 16
    /\ ~HasForbidden(nameIn)
    /\ str_len(nameIn) = 16
    /\ nameOut.result =
           InvalidNetworkDeviceName(nameIn, "invalid length, must be 1 to 15 characters long")

----------------------------------------------------------------------------
(* Properties of the live monitor (SpecMonitor) *)

\* the task is in the loop over the notifications
Watching == mon.pc \in {"watching", "handling"}

\* the ids of the notifications waiting in the stream
QueuedIds == [i \in 1..Len(bus.queue) |-> bus.queue[i].id]

\* the id of the notification the body of the loop is running for
InProgressIds == IF mon.signal.some THEN <<mon.signal.val.id>> ELSE <<>>

\* C21: the monitor runs the status-merge-write pipeline once for each
\* notification it has handled: after n notifications the pipeline has been
\* invoked n times and the resolver file written.  (Refuted: the body of the
\* loop only prints the changed properties.)
C21_OncePerNotification ==
    /\ runs = Len(mon.handled)
    /\ mon.handled # <<>> => resolvConf.exists

C23_Cancellation == (bus.stop /\ Watching) ~> (mon.pc = "returned")

\* C24: with the connection to the bus alive, a notification whose arguments
\* cannot be decoded does not end the monitor.  (Refuted: signal.args()?
\* returns the error from run.)
C24_TransientErrors ==
    (mon.pc = "returned" /\ bus.open) =>
        ~(KindOf(mon.result) = "zbus" /\ mon.result.call = "args")

\* C25: the link the monitor resolves and watches is the link the OS
\* designates primary, whatever its name, also after that link has
\* disappeared and reappeared.  (Refuted: the link is matched by the name
\* "eth0", once.)
C25_WatchTarget ==
    /\ mon.pc = "subscribe" => mon.target = PathOf(mon.links, bus.primary)
    /\ Watching => mon.target = PathOf(bus.links, bus.primary)

\* C26: the monitor handles notifications only once subscribed, and once it
\* has started it returns successfully only after the stop signal or the loss
\* of the bus connection.  (Refuted: without a link named "eth0" run returns
\* Ok(()) before subscribing.)
C26_StateMachine ==
    /\ (mon.handled # <<>> \/ mon.signal.some \/ bus.delivered # <<>>) =>
           (Watching \/ mon.pc = "returned")
    /\ Watching => mon.subscribed
    /\ (mon.pc = "returned" /\ mon.result.ok) => (bus.stop \/ ~bus.open)

====
